---- MODULE Spec2Model ----
(***************************************************************************)
(* Model of scripts/monitor.py: HyperliquidMonitor, its three prior-value   *)
(* caches, the delta detectors, the liquidation check, the alert            *)
(* dispatcher and the run_forever scheduler loop.                           *)
(*                                                                          *)
(* Numbers are integers; a percentage change (c - p) / p * 100 is kept as   *)
(* the pair numerator (c - p) * 100 and denominator p, so the comparisons   *)
(* |pct| >= threshold and pct > 0 are exact (floating-point rounding is     *)
(* outside the model).  A Python dict is a function whose DOMAIN is the     *)
(* set of keys; the snapshot, whose iteration order matters, is a sequence  *)
(* of rows with distinct coins.                                             *)
(***************************************************************************)
EXTENDS Integers, Sequences, FiniteSets, TLC

\* ---------------------------------------------------------------- constants
OI_SPIKE_THRESHOLD == 10

FUNDING_SPIKE_THRESHOLD == 50

LIQUIDATION_THRESHOLD == 50000

VOLATILITY_SPIKE_THRESHOLD == 3

WHALE_SIZE_THRESHOLD == 100000

\* ------------------------------------------------------------------- bounds
\* Longest list of liquidation events one get_liquidations call returns.
MaxLiqs == 1

\* Longest list of positions handed to check_whale_positions.
MaxPositions == 2

\* The history counters of fetches and sleeps stop counting here.
MaxCount == 2

Coins == {"BTC", "ETH"}

\* The readings the exchange reports for an instrument:
\* <<openInterest, fundingRate, markPx>>.
BtcReadings == { <<1000, 2, 100>>, <<1150, 3, 103>>, <<0, 2, 100>>, <<1000, 0, 0>> }

EthReadings == { <<1000, 2, 100>>, <<0, 2, 100>> }

Readings(coin) == IF coin = "BTC" THEN BtcReadings ELSE EthReadings

Row(coin, r) ==
    [coin |-> coin, openInterest |-> r[1], fundingRate |-> r[2], markPx |-> r[3]]

Rows(coin) == { Row(coin, r) : r \in Readings(coin) }

\* Every snapshot get_all_market_stats can return: a dict in insertion
\* order, keys distinct.  The empty one is what a failed fetch returns.
Snapshots ==
    { <<>> }
    \cup { <<a>> : a \in Rows("BTC") \cup Rows("ETH") }
    \cup { <<a, b>> : a \in Rows("BTC"), b \in Rows("ETH") }
    \cup { <<b, a>> : a \in Rows("BTC"), b \in Rows("ETH") }

\* A liquidation record; numeric is FALSE for a record whose size or price
\* is not a number (liq.get("size") * liq.get("price") then raises).
LiqEvents ==
    { [coin |-> "BTC", size |-> 1, price |-> 60000, numeric |-> TRUE],
      [coin |-> "ETH", size |-> 1, price |-> 40000, numeric |-> TRUE],
      [coin |-> "BTC", size |-> 0, price |-> 0, numeric |-> FALSE] }

SeqsUpTo(S, n) == UNION { [1..k -> S] : k \in 0..n }

LiqFeeds == SeqsUpTo(LiqEvents, MaxLiqs)

\* What the exchange answers to a liquidations request in a cycle: a
\* transport or parse failure, or a list of records.
LiqResponses ==
    { [ok |-> FALSE, events |-> <<>>] } \cup { [ok |-> TRUE, events |-> f] : f \in LiqFeeds }

NoResponse == [ok |-> FALSE, events |-> <<>>]

\* Position records: signed size szi (0 also stands for a missing key,
\* position.get("szi", 0)) and mark price.
Positions ==
    { [coin |-> "BTC", szi |-> 2, markPx |-> 60000],
      [coin |-> "BTC", szi |-> -2, markPx |-> 60000],
      [coin |-> "ETH", szi |-> 1, markPx |-> 60000],
      [coin |-> "ETH", szi |-> 0, markPx |-> 60000] }

PositionLists == SeqsUpTo(Positions, MaxPositions)

\* What the external command did with one message.
Outcomes == {"ok", "nonzero_exit", "timeout", "tool_missing"}

\* ------------------------------------------------------------------ helpers
Abs(x) == IF x < 0 THEN -x ELSE x

\* An assignment that rebuilds the dict around the one key.
PutFresh(d, k, v) == [x \in {k} |-> v]

\* d[k] = v on a dict
Put(d, k, v) == [x \in (DOMAIN d) \cup {k} |-> IF x = k THEN v ELSE d[x]]

EmptyCache == [x \in {} |-> 0]

Alert(kind, coin, dir) == [kind |-> kind, coin |-> coin, dir |-> dir]

ErrorResult == << Alert("ERROR", "-", "-") >>

CoinsOf(ms) == { ms[i].coin : i \in 1..Len(ms) }

\* ---------------------------------------------------------- delta detectors
Dets == {"oi", "funding", "price", "liq"}

\* data.get("openInterest" | "fundingRate" | "markPx", 0)
Current(det, row) ==
    IF det = "oi" THEN row.openInterest
    ELSE IF det = "funding" THEN row.fundingRate
    ELSE row.markPx

Threshold(det) ==
    IF det = "oi" THEN OI_SPIKE_THRESHOLD
    ELSE IF det = "funding" THEN FUNDING_SPIKE_THRESHOLD
    ELSE VOLATILITY_SPIKE_THRESHOLD

Kind(det) ==
    IF det = "oi" THEN "OI" ELSE IF det = "funding" THEN "FUNDING" ELSE "VOLATILITY"

\* change_pct = ((current_oi - last) / last) * 100; a zero divisor raises
\* ZeroDivisionError.
OiChange(prev, cur) ==
    [raises |-> prev = 0, num |-> (cur - prev) * 100, den |-> prev]

\* The funding detector without its guard: divides by abs(prev) always.
FundingChangeUnguarded(prev, cur) ==
    [raises |-> prev = 0, num |-> (cur - prev) * 100, den |-> Abs(prev)]

\* change_pct = ((current - prev) / abs(prev) * 100) if prev != 0 else 0
FundingChange(prev, cur) ==
    IF prev # 0
    THEN [raises |-> FALSE, num |-> (cur - prev) * 100, den |-> Abs(prev)]
    ELSE [raises |-> FALSE, num |-> 0, den |-> 1]

\* change_pct = ((current_price - last) / last) * 100
PriceChange(prev, cur) ==
    [raises |-> prev = 0, num |-> (cur - prev) * 100, den |-> prev]

Change(det, prev, cur) ==
    IF det = "oi" THEN OiChange(prev, cur)
    ELSE IF det = "funding" THEN FundingChange(prev, cur)
    ELSE PriceChange(prev, cur)

\* abs(change_pct) >= threshold, for change_pct = num / den
Spike(ch, threshold) == Abs(ch.num) >= threshold * Abs(ch.den)

\* direction = up if change_pct > 0 else down
Direction(ch) == IF ch.num * ch.den > 0 THEN "up" ELSE "down"

\* A lookup that takes a default for an instrument never seen.
PriorOrDefault(last, coin) ==
    [known |-> TRUE, value |-> IF coin \in DOMAIN last THEN last[coin] ELSE 1]

\* "if coin in self.last_x" and the read self.last_x[coin]
Prior(last, coin) ==
    IF coin \in DOMAIN last
    THEN [known |-> TRUE, value |-> last[coin]]
    ELSE [known |-> FALSE, value |-> 0]

\* A detector that moves its baseline only when it alerts (or has none).
StorePriorOnAlert(last, coin, cur, fired) ==
    IF fired \/ coin \notin DOMAIN last THEN Put(last, coin, cur) ELSE last

\* self.last_x[coin] = current, the last statement of the loop body
StorePrior(last, coin, cur, fired) == Put(last, coin, cur)

\* The loop "for coin, data in markets.items()" of a delta detector, from
\* row i on.  raised: the loop was left by an exception at some row; the
\* rows before it have been stored, the local alerts list is lost.
RECURSIVE Detect(_, _, _, _, _)
Detect(det, ms, i, last, alerts) ==
    IF i > Len(ms)
    THEN [last |-> last, alerts |-> alerts, raised |-> FALSE]
    ELSE LET coin == ms[i].coin
             cur == Current(det, ms[i])
             prior == Prior(last, coin)
         IN  IF prior.known
             THEN LET ch == Change(det, prior.value, cur)
                  IN  IF ch.raises
                      THEN [last |-> last, alerts |-> <<>>, raised |-> TRUE]
                      ELSE LET fired == Spike(ch, Threshold(det))
                           IN  Detect(det, ms, i + 1,
                                      StorePrior(last, coin, cur, fired),
                                      IF fired
                                      THEN Append(alerts,
                                                  Alert(Kind(det), coin, Direction(ch)))
                                      ELSE alerts)
             ELSE Detect(det, ms, i + 1, StorePrior(last, coin, cur, FALSE), alerts)

check_oi_spikes(ms, last) == Detect("oi", ms, 1, last, <<>>)

check_funding_spikes(ms, last) == Detect("funding", ms, 1, last, <<>>)

check_price_volatility(ms, last) == Detect("price", ms, 1, last, <<>>)

\* run_once lines 206-209 with the order of the three checks as a
\* parameter: the checks run one after the other on the caches cs (a record
\* keyed by detector); the first one that raises ends the cycle, and the
\* alerts collected are then lost.
RECURSIVE RunChecks(_, _, _, _, _)
RunChecks(order, i, cs, ms, alerts) ==
    IF i > Len(order)
    THEN [caches |-> cs, alerts |-> alerts, raised |-> FALSE]
    ELSE LET r == Detect(order[i], ms, 1, cs[order[i]], <<>>)
             cs2 == [cs EXCEPT ![order[i]] = r.last]
         IN  IF r.raised
             THEN [caches |-> cs2, alerts |-> <<>>, raised |-> TRUE]
             ELSE RunChecks(order, i + 1, cs2, ms, alerts \o r.alerts)

\* A liquidation check that compares the size alone, not size * price.
LiqFiresOnSize(liq) == liq.size >= LIQUIDATION_THRESHOLD

\* size_usd = liq.get("size", 0) * liq.get("price", 0);
\* size_usd >= LIQUIDATION_THRESHOLD
LiqFires(liq) == liq.size * liq.price >= LIQUIDATION_THRESHOLD

\* The loop "for liq in liquidations" of run_once.
RECURSIVE LiqLoop(_, _, _)
LiqLoop(feed, i, alerts) ==
    IF i > Len(feed)
    THEN [alerts |-> alerts, raised |-> FALSE]
    ELSE IF ~feed[i].numeric
         THEN [alerts |-> <<>>, raised |-> TRUE]
         ELSE LiqLoop(feed, i + 1,
                      IF LiqFires(feed[i])
                      THEN Append(alerts, Alert("LIQUIDATION", feed[i].coin, "-"))
                      ELSE alerts)

\* A size computed from the signed szi.
calculate_size_signed(position) == position.szi * position.markPx

\* calculate_size_usd: abs(szi) * markPx
calculate_size_usd(position) == Abs(position.szi) * position.markPx

\* check_whale_positions: the loop over the positions, from position i on.
RECURSIVE WhaleLoop(_, _, _)
WhaleLoop(ps, i, alerts) ==
    IF i > Len(ps) THEN alerts
    ELSE WhaleLoop(ps, i + 1,
                   IF calculate_size_usd(ps[i]) >= WHALE_SIZE_THRESHOLD
                   THEN Append(alerts,
                               Alert("WHALE", ps[i].coin,
                                     IF ps[i].szi > 0 THEN "up" ELSE "down"))
                   ELSE alerts)

check_whale_positions(ps) == WhaleLoop(ps, 1, <<>>)

\* get_liquidations: the parsed response, or [] on any exception.
get_liquidations(resp) == IF resp.ok THEN resp.events ELSE <<>>

\* ------------------------------------------------------------ alert dispatch
\* What send_alert prints for an outcome of subprocess.run: without
\* check=True only an exception (tool missing, timeout) reaches the except
\* branch; a non-zero exit status returns normally.
Logged(outcome) ==
    IF outcome \in {"timeout", "tool_missing"} THEN "ALERT_ERROR" ELSE "SENT"

NoSend == [message |-> Alert("-", "-", "-"), outcome |-> "-", logged |-> "-"]

\* -------------------------------------------------------------------- state
VARIABLES
    pc,            \* where run_forever is: "Polling" (about to call run_once),
                   \* a step of run_once, or "Sleeping"
    last_oi,       \* self.last_oi
    last_funding,  \* self.last_funding
    last_prices,   \* self.last_prices
    markets,       \* run_once's local: the snapshot fetched this cycle
    all_alerts,    \* run_once's local: the alerts collected so far
    sent,          \* the messages handed to send_alert this cycle, in order
    lastSend,      \* the latest send_alert call: message, outcome, what it printed
    status,        \* how the cycle ended: "running" | "completed" |
                   \* "fetch_failed" | "raised"
    result,        \* the list run_once returned (<<>> when it raised)
    ran,           \* per detector: "notrun" | "returned" | "raised"
    start_oi,      \* history: the caches when the cycle began
    start_funding,
    start_prices,
    seen,          \* history: instruments of the snapshots of earlier cycles
    prevMarkets,   \* history: the immediately preceding cycle's snapshot
    prevStatus,    \* history: how the immediately preceding cycle ended
    failedBefore,  \* history: some earlier cycle failed
    hist_oi,       \* history: per instrument, its value in the latest
    hist_funding,  \* snapshot row the detector's loop ran through to the end
    hist_prices,
    liqResponse,   \* environment: the exchange's answer to this cycle's
                   \* liquidations request, fixed when run_once asks or, for a
                   \* cycle that ends at the failed snapshot fetch, the answer
                   \* it would have got
    snapFetches,   \* history: get_all_market_stats calls of this cycle
    liqFetches,    \* history: get_liquidations calls of this cycle
    sleeps,        \* history: sleeps since the latest snapshot fetch
    positions,     \* the argument of a check_whale_positions call
    whale_alerts,  \* what that call returned
    whale_done     \* the call has been made

caches == <<last_oi, last_funding, last_prices>>

locals == <<markets, all_alerts, sent, lastSend, status, result, ran>>

history == <<start_oi, start_funding, start_prices, seen, prevMarkets, prevStatus,
            failedBefore>>

hists == <<hist_oi, hist_funding, hist_prices>>

counters == <<snapFetches, liqFetches, sleeps>>

whale == <<positions, whale_alerts, whale_done>>

vars == <<pc, caches, locals, history, hists, liqResponse, counters, whale>>

Bump(n) == IF n < MaxCount THEN n + 1 ELSE n

NotRun == [d \in Dets |-> "notrun"]

Init ==
    /\ pc = "Polling"
    /\ last_oi = EmptyCache
    /\ last_funding = EmptyCache
    /\ last_prices = EmptyCache
    /\ markets = <<>>
    /\ all_alerts = <<>>
    /\ sent = <<>>
    /\ lastSend = NoSend
    /\ status = "running"
    /\ result = <<>>
    /\ ran = NotRun
    /\ start_oi = EmptyCache
    /\ start_funding = EmptyCache
    /\ start_prices = EmptyCache
    /\ seen = {}
    /\ prevMarkets = <<>>
    /\ prevStatus = "none"
    /\ failedBefore = FALSE
    /\ hist_oi = EmptyCache
    /\ hist_funding = EmptyCache
    /\ hist_prices = EmptyCache
    /\ liqResponse = NoResponse
    /\ snapFetches = 0
    /\ liqFetches = 0
    /\ sleeps = 0
    /\ positions = <<>>
    /\ whale_alerts = <<>>
    /\ whale_done = FALSE

\* A run_once without the early return on an empty snapshot.
NeverSkip(ms) == FALSE

\* run_once line 203: "if not markets"
SkipCycle(ms) == Len(ms) = 0

\* An except clause that goes on with the next iteration at once.
ExceptionRetries == "Polling"

\* A loop without the except clause: the exception leaves run_forever.
ExceptionEscapes == "Terminated"

\* run_forever's "except Exception": log, then fall through to the sleep.
OnException == "Sleeping"

\* The instruments whose row a detector's loop runs through to the end:
\* those before the first row whose stored prior makes the division raise.
FirstRaise(det, ms, last) ==
    LET bad == { i \in 1..Len(ms) :
                   /\ ms[i].coin \in DOMAIN last
                   /\ Change(det, last[ms[i].coin], Current(det, ms[i])).raises }
    IN  IF bad = {} THEN Len(ms) + 1 ELSE CHOOSE i \in bad : \A j \in bad : i <= j

Through(det, ms, last, h) ==
    LET n == FirstRaise(det, ms, last)
        done == { ms[i].coin : i \in 1..(n - 1) }
    IN  [c \in (DOMAIN h) \cup done |->
            IF c \in done
            THEN Current(det, ms[CHOOSE i \in 1..Len(ms) : ms[i].coin = c])
            ELSE h[c]]

\* run_once lines 199-204: fetch the snapshot; an empty one ends the cycle.
Fetch ==
    /\ pc = "Polling"
    /\ \E ms \in Snapshots :
        /\ markets' = ms
        /\ IF SkipCycle(ms)
           THEN /\ pc' = "Sleeping"
                /\ status' = "fetch_failed"
                /\ result' = ErrorResult
                /\ \E resp \in LiqResponses : liqResponse' = resp
           ELSE /\ pc' = "check_oi"
                /\ UNCHANGED <<status, result, liqResponse>>
    /\ snapFetches' = Bump(snapFetches)
    /\ sleeps' = 0
    /\ UNCHANGED <<caches, all_alerts, sent, lastSend, ran, history, hists,
                   liqFetches>>
    /\ UNCHANGED whale

\* run_once line 207
CheckOi ==
    /\ pc = "check_oi"
    /\ LET r == check_oi_spikes(markets, last_oi)
       IN  /\ last_oi' = r.last
           /\ hist_oi' = Through("oi", markets, last_oi, hist_oi)
           /\ IF r.raised
              THEN /\ pc' = OnException
                   /\ status' = "raised"
                   /\ ran' = [ran EXCEPT !["oi"] = "raised"]
                   /\ UNCHANGED all_alerts
              ELSE /\ pc' = "check_funding"
                   /\ all_alerts' = all_alerts \o r.alerts
                   /\ ran' = [ran EXCEPT !["oi"] = "returned"]
                   /\ UNCHANGED status
    /\ UNCHANGED <<last_funding, last_prices, markets, sent, lastSend, result,
                   history, hist_funding, hist_prices, liqResponse, counters>>
    /\ UNCHANGED whale

\* run_once line 208
CheckFunding ==
    /\ pc = "check_funding"
    /\ LET r == check_funding_spikes(markets, last_funding)
       IN  /\ last_funding' = r.last
           /\ hist_funding' = Through("funding", markets, last_funding, hist_funding)
           /\ IF r.raised
              THEN /\ pc' = OnException
                   /\ status' = "raised"
                   /\ ran' = [ran EXCEPT !["funding"] = "raised"]
                   /\ UNCHANGED all_alerts
              ELSE /\ pc' = "check_price"
                   /\ all_alerts' = all_alerts \o r.alerts
                   /\ ran' = [ran EXCEPT !["funding"] = "returned"]
                   /\ UNCHANGED status
    /\ UNCHANGED <<last_oi, last_prices, markets, sent, lastSend, result,
                   history, hist_oi, hist_prices, liqResponse, counters>>
    /\ UNCHANGED whale

\* run_once line 209
CheckPrice ==
    /\ pc = "check_price"
    /\ LET r == check_price_volatility(markets, last_prices)
       IN  /\ last_prices' = r.last
           /\ hist_prices' = Through("price", markets, last_prices, hist_prices)
           /\ IF r.raised
              THEN /\ pc' = OnException
                   /\ status' = "raised"
                   /\ ran' = [ran EXCEPT !["price"] = "raised"]
                   /\ UNCHANGED all_alerts
              ELSE /\ pc' = "liquidations"
                   /\ all_alerts' = all_alerts \o r.alerts
                   /\ ran' = [ran EXCEPT !["price"] = "returned"]
                   /\ UNCHANGED status
    /\ UNCHANGED <<last_oi, last_funding, markets, sent, lastSend, result,
                   history, hist_oi, hist_funding, liqResponse, counters>>
    /\ UNCHANGED whale

\* run_once lines 212-219: fetch the liquidations (<<>> when the fetch
\* fails) and append an alert for every large one.
CheckLiquidations ==
    /\ pc = "liquidations"
    /\ \E resp \in LiqResponses :
        LET r == LiqLoop(get_liquidations(resp), 1, all_alerts)
        IN  /\ liqResponse' = resp
            /\ IF r.raised
               THEN /\ pc' = OnException
                    /\ status' = "raised"
                    /\ ran' = [ran EXCEPT !["liq"] = "raised"]
                    /\ UNCHANGED all_alerts
               ELSE /\ pc' = "dispatch"
                    /\ all_alerts' = r.alerts
                    /\ ran' = [ran EXCEPT !["liq"] = "returned"]
                    /\ UNCHANGED status
    /\ liqFetches' = Bump(liqFetches)
    /\ UNCHANGED <<caches, markets, sent, lastSend, result, history, hists,
                   snapFetches, sleeps>>
    /\ UNCHANGED whale

\* run_once lines 222-223 with send_alert (lines 112-126): one iteration of
\* "for alert in all_alerts: await self.send_alert(alert)".
SendAlert ==
    /\ pc = "dispatch"
    /\ Len(sent) < Len(all_alerts)
    /\ \E o \in Outcomes :
        LET msg == all_alerts[Len(sent) + 1]
        IN  /\ sent' = Append(sent, msg)
            /\ lastSend' = [message |-> msg, outcome |-> o, logged |-> Logged(o)]
    /\ UNCHANGED <<pc, caches, markets, all_alerts, status, result, ran,
                   history, hists, liqResponse, counters>>
    /\ UNCHANGED whale

\* run_once line 225
Return ==
    /\ pc = "dispatch"
    /\ Len(sent) = Len(all_alerts)
    /\ pc' = "Sleeping"
    /\ status' = "completed"
    /\ result' = all_alerts
    /\ UNCHANGED <<caches, markets, all_alerts, sent, lastSend, ran, history, hists,
                   liqResponse, counters>>
    /\ UNCHANGED whale

\* run_forever line 241: the sleep ends and the loop calls run_once again.
Sleep ==
    /\ pc = "Sleeping"
    /\ pc' = "Polling"
    /\ markets' = <<>>
    /\ all_alerts' = <<>>
    /\ sent' = <<>>
    /\ lastSend' = NoSend
    /\ status' = "running"
    /\ result' = <<>>
    /\ ran' = NotRun
    /\ start_oi' = last_oi
    /\ start_funding' = last_funding
    /\ start_prices' = last_prices
    /\ seen' = seen \cup CoinsOf(markets)
    /\ prevMarkets' = markets
    /\ prevStatus' = status
    /\ failedBefore' = (failedBefore \/ status \in {"fetch_failed", "raised"})
    /\ liqResponse' = NoResponse
    /\ snapFetches' = 0
    /\ liqFetches' = 0
    /\ sleeps' = Bump(sleeps)
    /\ UNCHANGED <<caches, hists>>
    /\ UNCHANGED whale

Next ==
    \/ Fetch
    \/ CheckOi
    \/ CheckFunding
    \/ CheckPrice
    \/ CheckLiquidations
    \/ SendAlert
    \/ Return
    \/ Sleep

Spec == Init /\ [][Next]_vars

\* check_whale_positions has no caller in run_once: it is exercised on its
\* own, on any list of positions and with caches of an earlier cycle.
WhaleCaches ==
    { EmptyCache, [c \in {"BTC"} |-> 1000], [c \in Coins |-> 0] }

WhaleInit ==
    /\ pc = "Polling"
    /\ last_oi \in WhaleCaches
    /\ last_funding = last_oi
    /\ last_prices = last_oi
    /\ markets = <<>>
    /\ all_alerts = <<>>
    /\ sent = <<>>
    /\ lastSend = NoSend
    /\ status = "running"
    /\ result = <<>>
    /\ ran = NotRun
    /\ start_oi = last_oi
    /\ start_funding = last_oi
    /\ start_prices = last_oi
    /\ seen = DOMAIN last_oi
    /\ prevMarkets = <<>>
    /\ prevStatus = "none"
    /\ failedBefore = FALSE
    /\ hist_oi = last_oi
    /\ hist_funding = last_oi
    /\ hist_prices = last_oi
    /\ liqResponse = NoResponse
    /\ snapFetches = 0
    /\ liqFetches = 0
    /\ sleeps = 0
    /\ positions \in PositionLists
    /\ whale_alerts = <<>>
    /\ whale_done = FALSE

CheckWhale ==
    /\ ~whale_done
    /\ whale_alerts' = check_whale_positions(positions)
    /\ whale_done' = TRUE
    /\ UNCHANGED <<pc, caches, locals, history, hists, liqResponse, counters,
                   positions>>

WhaleNext == CheckWhale

WhaleSpec == WhaleInit /\ [][WhaleNext]_vars

\* asyncio runs the one task to completion of every await: each step that
\* is enabled is eventually taken.
FairSpec == Spec /\ WF_vars(Next)

\* ------------------------------------------------------------------- claims
DeltaDets == {"oi", "funding", "price"}

StartOf(det) ==
    IF det = "oi" THEN start_oi ELSE IF det = "funding" THEN start_funding
    ELSE start_prices

LastOf(det) ==
    IF det = "oi" THEN last_oi ELSE IF det = "funding" THEN last_funding
    ELSE last_prices

HistOf(det) ==
    IF det = "oi" THEN hist_oi ELSE IF det = "funding" THEN hist_funding
    ELSE hist_prices

\* The number of alerts of a detector for an instrument collected this cycle.
Emitted(det, coin) ==
    Cardinality({ k \in 1..Len(all_alerts) :
                    all_alerts[k].kind = Kind(det) /\ all_alerts[k].coin = coin })

RowOf(ms, coin) == ms[CHOOSE i \in 1..Len(ms) : ms[i].coin = coin]

CachesAsAtStart ==
    /\ last_oi = start_oi
    /\ last_funding = start_funding
    /\ last_prices = start_prices

\* C1: whenever a delta detector's pass has run over a snapshot holding an
\* instrument with stored prior p # 0 and current value c, it has emitted
\* exactly one alert for the instrument if |(c-p)/p*100| >= threshold and
\* none otherwise, and the stored prior is now c.
C1_DeltaContract ==
    \A det \in DeltaDets : \A i \in 1..Len(markets) :
        LET coin == markets[i].coin
            c == Current(det, markets[i])
        IN  (/\ ran[det] # "notrun"
             /\ coin \in DOMAIN StartOf(det)
             /\ StartOf(det)[coin] # 0)
            => LET p == StartOf(det)[coin]
               IN  /\ Emitted(det, coin)
                        = (IF Abs((c - p) * 100) >= Threshold(det) * Abs(p)
                           THEN 1 ELSE 0)
                   /\ LastOf(det)[coin] = c

\* C2: no OI, funding or price alert is collected or dispatched for an
\* instrument that no snapshot of an earlier cycle contained.
C2_FirstObservationSilent ==
    /\ \A k \in 1..Len(all_alerts) :
          all_alerts[k].kind \in { Kind(d) : d \in DeltaDets }
              => all_alerts[k].coin \in seen
    /\ \A k \in 1..Len(sent) :
          sent[k].kind \in { Kind(d) : d \in DeltaDets } => sent[k].coin \in seen

\* C2 witness: an instrument's first snapshot, in a later cycle of the
\* process, has passed all three detectors with a non-zero prior-free value.
C2_Witness ==
    /\ pc = "liquidations"
    /\ seen = {"ETH"}
    /\ "BTC" \in CoinsOf(markets)
    /\ RowOf(markets, "BTC").openInterest = 1150
    /\ Emitted("oi", "BTC") = 0

\* C3: once a cycle over a non-empty snapshot is over, each cache holds
\* that snapshot's value for every instrument of the snapshot, whatever
\* the prior was.
C3_CacheOverwritten ==
    (pc = "Sleeping" /\ markets # <<>>)
        => \A i \in 1..Len(markets) : \A det \in DeltaDets :
              /\ markets[i].coin \in DOMAIN LastOf(det)
              /\ LastOf(det)[markets[i].coin] = Current(det, markets[i])

\* C4 as stated: a cycle whose fetch returned the empty mapping ends with
\* an empty result, no send_alert call and unchanged caches.
C4_FetchFailureEmptyResult ==
    (pc = "Sleeping" /\ markets = <<>>)
        => /\ result = <<>>
           /\ sent = <<>>
           /\ CachesAsAtStart

\* C4 amended: such a cycle goes straight to Sleeping, collects no detector
\* alert, calls send_alert never and leaves the caches unchanged; its
\* result is the one-element list holding the fetch-error string.
C4_FetchFailureSkipsCycle ==
    (pc # "Polling" /\ markets = <<>>)
        => /\ pc = "Sleeping"
           /\ status = "fetch_failed"
           /\ all_alerts = <<>>
           /\ sent = <<>>
           /\ lastSend = NoSend
           /\ result = ErrorResult
           /\ CachesAsAtStart

C4_Witness ==
    /\ pc = "Sleeping"
    /\ status = "fetch_failed"
    /\ "BTC" \in DOMAIN last_oi
    /\ last_oi["BTC"] = 1150

\* C5: the loop has no terminal state: from every state, also one in which
\* run_once has raised, the loop reaches Sleeping again and Polling again;
\* both recur forever.
C5_LoopNeverStops ==
    /\ []<>(pc = "Polling")
    /\ []<>(pc = "Sleeping")

C5_Witness ==
    /\ pc = "Sleeping"
    /\ status = "raised"
    /\ ran["price"] = "raised"
    /\ failedBefore

\* C6: a cycle in which an exception was raised has dispatched nothing and
\* left the three caches as they were when it began.
C6_ExceptionCycleIsNoOp ==
    status = "raised" => (sent = <<>> /\ CachesAsAtStart)

\* C7: after a failed cycle, every later cycle whose snapshot fetch
\* succeeded runs the three delta detectors to completion.
C7_FailureIsolated ==
    (failedBefore /\ pc = "Sleeping" /\ markets # <<>>)
        => \A det \in DeltaDets : ran[det] = "returned"

\* C8 as stated: when a detector is given a snapshot, the stored prior of
\* every instrument of it is the instrument's value in the immediately
\* preceding poll cycle.
C8_BaselineIsPrecedingPoll ==
    \A det \in DeltaDets : \A i \in 1..Len(markets) :
        (pc = "check_oi" /\ markets[i].coin \in DOMAIN LastOf(det))
            => /\ markets[i].coin \in CoinsOf(prevMarkets)
               /\ LastOf(det)[markets[i].coin]
                     = Current(det, RowOf(prevMarkets, markets[i].coin))

\* C8 amended: the stored prior of an instrument is always its value in the
\* latest snapshot row that the detector's loop ran through, whether or not
\* that row alerted; it is the value of the immediately preceding poll
\* cycle whenever that cycle held the instrument and completed.
C8_BaselineIsLatestStored ==
    \A det \in DeltaDets :
        /\ LastOf(det) = HistOf(det)
        /\ \A coin \in CoinsOf(prevMarkets) :
              (pc = "check_oi" /\ prevStatus = "completed")
                  => /\ coin \in DOMAIN LastOf(det)
                     /\ LastOf(det)[coin] = Current(det, RowOf(prevMarkets, coin))

\* C8 witness: a detection pass is about to use a baseline that is older
\* than the preceding cycle, whose fetch failed.
C8_Witness ==
    /\ pc = "check_oi"
    /\ prevStatus = "fetch_failed"
    /\ "BTC" \in CoinsOf(markets)
    /\ "BTC" \in DOMAIN last_funding
    /\ last_funding["BTC"] = 2
    /\ RowOf(markets, "BTC").fundingRate = 3

C10_DeliveryFailureLogged ==
    /\ lastSend.outcome \in {"tool_missing", "timeout", "nonzero_exit"}
          => (lastSend.logged = "ALERT_ERROR" /\ lastSend.message = sent[Len(sent)])
    /\ (pc = "Sleeping" /\ status = "completed") => sent = all_alerts

Range(q) == { q[k] : k \in 1..Len(q) }

Orders ==
    { o \in [1..3 -> DeltaDets] : \A x, y \in 1..3 : x # y => o[x] # o[y] }

CacheRecord == [oi |-> last_oi, funding |-> last_funding, price |-> last_prices]

\* C11: for the caches and the snapshot of any cycle, each of the six
\* orders of the three detectors yields the same set of alerts and the same
\* final caches as the order of run_once.
C11_OrderInsensitive ==
    pc = "check_oi"
        => \A o \in Orders :
              LET a == RunChecks(o, 1, CacheRecord, markets, <<>>)
                  b == RunChecks(<<"oi", "funding", "price">>, 1, CacheRecord,
                                 markets, <<>>)
              IN  /\ Range(a.alerts) = Range(b.alerts)
                  /\ a.caches = b.caches

StartRecord == [oi |-> start_oi, funding |-> start_funding, price |-> start_prices]

\* The liquidation alerts among a list of alerts, in order.
LiqAlertsOf(q) == SelectSeq(q, LAMBDA a : a.kind = "LIQUIDATION")

\* The alerts the large records of a response call for, in order.
RECURSIVE LargeLiqs(_, _)
LargeLiqs(events, threshold) ==
    IF events = <<>> THEN <<>>
    ELSE LET e == Head(events)
         IN  (IF e.numeric /\ e.size * e.price >= threshold
              THEN << Alert("LIQUIDATION", e.coin, "-") >> ELSE <<>>)
             \o LargeLiqs(Tail(events), threshold)

\* C12 as stated: when the liquidations fetch fails after a successful
\* snapshot fetch the cycle's alerts are dispatched, and when the snapshot
\* fetch fails while the liquidations fetch would succeed, the large
\* liquidations of the answer are still dispatched in that cycle.
C12_EachFetchDegradesAlone ==
    /\ (pc = "Sleeping" /\ ran["liq"] # "notrun" /\ ~liqResponse.ok)
          => sent = all_alerts
    /\ (pc = "Sleeping" /\ markets = <<>> /\ liqResponse.ok)
          => sent = LargeLiqs(liqResponse.events, LIQUIDATION_THRESHOLD)

\* C12 amended: a failed liquidations fetch raises nothing and adds no
\* alert, and every alert the three detectors returned is dispatched; a
\* failed snapshot fetch ends the cycle before get_liquidations is called,
\* so no liquidation is detected or dispatched in that cycle.
C12_LiquidationFailureOnlyDegrades ==
    /\ (ran["liq"] # "notrun" /\ ~liqResponse.ok)
          => /\ ran["liq"] = "returned"
             /\ all_alerts
                  = RunChecks(<<"oi", "funding", "price">>, 1, StartRecord,
                              markets, <<>>).alerts
             /\ pc = "Sleeping" => (status = "completed" /\ sent = all_alerts)
    /\ (pc # "Polling" /\ markets = <<>>)
          => /\ liqFetches = 0
             /\ ran["liq"] = "notrun"
             /\ sent = <<>>

C12_Witness ==
    /\ pc = "Sleeping"
    /\ status = "completed"
    /\ ran["liq"] = "returned"
    /\ ~liqResponse.ok
    /\ Len(sent) >= 2

LargePositions(ps, threshold) ==
    SelectSeq(ps, LAMBDA q : Abs(q.szi) * q.markPx >= threshold)

KindRank(kind) ==
    IF kind = "OI" THEN 1 ELSE IF kind = "FUNDING" THEN 2
    ELSE IF kind = "VOLATILITY" THEN 3 ELSE 4

\* C15: when the loop enters Sleeping, every alert the cycle generated has
\* been handed to send_alert exactly once, in generation order (OI, funding,
\* price, liquidations), and no cache holds the new value of a threshold
\* crossing of this cycle whose alert was not dispatched.
C15_EveryAlertDispatched ==
    pc = "Sleeping"
        => /\ sent = all_alerts
           /\ \A j, k \in 1..Len(sent) :
                 j < k => KindRank(sent[j].kind) <= KindRank(sent[k].kind)
           /\ \A det \in DeltaDets : \A i \in 1..Len(markets) :
                 LET coin == markets[i].coin
                     c == Current(det, markets[i])
                 IN  (/\ coin \in DOMAIN StartOf(det)
                      /\ StartOf(det)[coin] # 0
                      /\ Abs((c - StartOf(det)[coin]) * 100)
                            >= Threshold(det) * Abs(StartOf(det)[coin])
                      /\ LastOf(det)[coin] = c)
                     => \E k \in 1..Len(sent) :
                           sent[k].kind = Kind(det) /\ sent[k].coin = coin

\* C16: a cycle makes exactly one snapshot fetch and at most one
\* liquidations fetch, and the loop sleeps exactly once between two
\* consecutive snapshot fetches, whatever the outcome of the earlier cycle.
C16_NoEarlyRetry ==
    /\ liqFetches <= 1
    /\ liqFetches = (IF ran["liq"] = "notrun" THEN 0 ELSE 1)
    /\ pc # "Polling" => (snapFetches = 1 /\ sleeps = 0)
    /\ pc = "Polling"
          => /\ snapFetches = 0
             /\ sleeps = (IF prevStatus = "none" THEN 0 ELSE 1)

\* C16 witness: the cycle after one that raised is about to fetch, after
\* one sleep.
C16_Witness ==
    /\ pc = "Polling"
    /\ prevStatus = "raised"
    /\ failedBefore
    /\ sleeps = 1
    /\ snapFetches = 0

\* new differs from old only at instruments of the snapshot ms, and keeps
\* every entry of old.
OnlyAtRows(old, new, ms) ==
    /\ \A c \in DOMAIN old : c \in DOMAIN new /\ (c \notin CoinsOf(ms) => new[c] = old[c])
    /\ \A c \in DOMAIN new : c \in DOMAIN old \/ c \in CoinsOf(ms)

\* C17: each delta detector leaves the other two caches unchanged and
\* changes its own only at instruments of the snapshot it was given, and no
\* step of the program removes an entry from a cache.
C17_DetectorFrame ==
    [][ /\ pc = "check_oi"
           => /\ last_funding' = last_funding
              /\ last_prices' = last_prices
              /\ OnlyAtRows(last_oi, last_oi', markets)
        /\ pc = "check_funding"
           => /\ last_oi' = last_oi
              /\ last_prices' = last_prices
              /\ OnlyAtRows(last_funding, last_funding', markets)
        /\ pc = "check_price"
           => /\ last_oi' = last_oi
              /\ last_funding' = last_funding
              /\ OnlyAtRows(last_prices, last_prices', markets)
        /\ DOMAIN last_oi \subseteq DOMAIN last_oi'
        /\ DOMAIN last_funding \subseteq DOMAIN last_funding'
        /\ DOMAIN last_prices \subseteq DOMAIN last_prices' ]_vars

\* C17 witness: check_oi_spikes has changed BTC's entry and kept ETH's,
\* which the snapshot does not hold; the other caches still have their
\* values of the cycle's start.
C17_Witness ==
    /\ pc = "check_funding"
    /\ CoinsOf(markets) = {"BTC"}
    /\ "ETH" \in DOMAIN last_oi
    /\ "BTC" \in DOMAIN start_oi
    /\ last_oi["BTC"] # start_oi["BTC"]
    /\ last_oi["ETH"] = start_oi["ETH"]
    /\ last_funding = start_funding
    /\ RowOf(markets, "BTC").fundingRate # start_funding["BTC"]

\* C18: whenever the loop is in Sleeping the three caches hold the same set
\* of instruments, namely every instrument of the snapshots processed so
\* far.
C18_SameInstruments ==
    pc = "Sleeping"
        => /\ DOMAIN last_oi = seen \cup CoinsOf(markets)
           /\ DOMAIN last_funding = seen \cup CoinsOf(markets)
           /\ DOMAIN last_prices = seen \cup CoinsOf(markets)

====
